---- MODULE Spec2Model ----
(***************************************************************************)
(* Model of the job-history tracker of the automated job agent             *)
(* (src/job_tracker.py) and of the search cycle that drives it             *)
(* (src/main.py perform_job_search, src/github_action_search.py main).     *)
(*                                                                         *)
(* Text is a sequence of one-character strings.  A point in time is a      *)
(* number of clock ticks since day 0, TicksPerDay ticks to the calendar    *)
(* day.  An ISO-8601 datetime string is the pair <<day, tick of day>>, an  *)
(* ISO date string is the 1-tuple <<day>>.  hashlib.md5 is taken to be     *)
(* collision free on the texts of the model.                               *)
(***************************************************************************)
EXTENDS Integers, Sequences, FiniteSets, TLC

VARIABLES now, history, file, pc, caller, call, last_op, cfg, obs,
          ret, sweep, parked, results

vars == <<now, history, file, pc, caller, call, last_op, cfg, obs,
          ret, sweep, parked, results>>

(***************************************************************************)
(* Bounds                                                                  *)
(***************************************************************************)
TicksPerDay == 2
MaxJobs == 2

(***************************************************************************)
(* Program constants                                                       *)
(***************************************************************************)
DefaultDaysToKeep == 30
CycleDaysThreshold == 3
Monday == 0

(***************************************************************************)
(* Text: str.lower, str.strip, concatenation                               *)
(***************************************************************************)
LowerChar(c) ==
    CASE c = "A" -> "a"
      [] c = "B" -> "b"
      [] c = "D" -> "d"
      [] c = "E" -> "e"
      [] c = "N" -> "n"
      [] c = "P" -> "p"
      [] OTHER -> c

lower(s) == [i \in 1..Len(s) |-> LowerChar(s[i])]

IsSpace(c) == c = " "

RECURSIVE lstrip(_)
lstrip(s) ==
    IF s # <<>> /\ IsSpace(Head(s)) THEN lstrip(Tail(s)) ELSE s

RECURSIVE rstrip(_)
rstrip(s) ==
    IF s # <<>> /\ IsSpace(s[Len(s)]) THEN rstrip(SubSeq(s, 1, Len(s) - 1)) ELSE s

strip(s) == rstrip(lstrip(s))

\* dict.get(key, default)
get(job, key, default) == IF key \in DOMAIN job THEN job[key] ELSE default

md5_hexdigest(s) == <<"md5">> \o s

(***************************************************************************)
(* JobTracker.generate_job_hash                                            *)
(***************************************************************************)
job_string(job) ==
    strip(lower(job.title)) \o <<"-">> \o strip(lower(job.company))
        \o <<"-">> \o strip(lower(get(job, "location", <<>>)))

generate_job_hash_url(job) ==
    md5_hexdigest(job_string(job) \o <<"-">> \o get(job, "url", <<>>))

generate_job_hash(job) == md5_hexdigest(job_string(job))

(***************************************************************************)
(* datetime: isoformat, fromisoformat, date, timedelta                     *)
(***************************************************************************)
isoformat(t) == <<t \div TicksPerDay, t % TicksPerDay>>

fromisoformat(s) == s[1] * TicksPerDay + s[2]

date(t) == t \div TicksPerDay

date_isoformat(d) == <<d>>

timedelta(days) == days * TicksPerDay

\* datetime.weekday() of calendar day d, Monday = 0
weekday(d) == (d + cfg.weekday0) % 7

(***************************************************************************)
(* json.dump / json.load of the history document: a JSON object is a set   *)
(* of <<name, value>> members.  The document is the record of its          *)
(* top-level members; a file that does not hold JSON text is the record    *)
(* [raw |-> its text].                                                     *)
(***************************************************************************)
Members(f) == {<<k, f[k]>> : k \in DOMAIN f}

Object(ms) == [k \in {m[1] : m \in ms} |-> (CHOOSE m \in ms : m[1] = k)[2]]

json_dump_no_counts(h) ==
    [seen_jobs |-> Members(h.seen_jobs),
     daily_counts |-> {},
     last_cleanup |-> h.last_cleanup]

\* the top-level keys of the history whose value is a dict
IsMapKey(k) == k \in {"seen_jobs", "daily_counts"}

json_dump(h) ==
    [k \in DOMAIN h |-> IF IsMapKey(k) THEN Members(h[k]) ELSE h[k]]

json_load(doc) ==
    [k \in DOMAIN doc |-> IF IsMapKey(k) THEN Object(doc[k]) ELSE doc[k]]

\* json.load raises JSONDecodeError on anything else
IsJson(doc) == "raw" \notin DOMAIN doc

EmptyMap == [k \in {} |-> 0]

FreshHistory(t) ==
    [seen_jobs |-> EmptyMap, daily_counts |-> EmptyMap, last_cleanup |-> isoformat(t)]

NoFile == [exists |-> FALSE, doc |-> json_dump(FreshHistory(0))]

(***************************************************************************)
(* Job records offered to the tracker.  JobA and JobA2 are the same        *)
(* posting scraped from two boards (case, blanks, url and source differ);  *)
(* JobB is another posting.                                                *)
(***************************************************************************)
JobA == [title |-> <<"A">>, company |-> <<"B">>, location |-> <<"D">>,
         url |-> <<"1">>, source |-> "Indeed"]

JobA2 == [title |-> <<" ", "a">>, company |-> <<"b", " ">>, location |-> <<"d">>,
          url |-> <<"2">>, source |-> "Naukri"]

JobB == [title |-> <<"b">>, company |-> <<"B">>, location |-> <<"D">>,
         url |-> <<"1">>, source |-> "Indeed"]

Jobs == {JobA, JobA2, JobB}

RECURSIVE SeqsUpTo(_, _)
SeqsUpTo(S, n) ==
    IF n = 0 THEN {<<>>}
    ELSE LET shorter == SeqsUpTo(S, n - 1)
         IN shorter \cup {Append(q, x) : q \in {r \in shorter : Len(r) = n - 1}, x \in S}

\* the lists of at most MaxJobs records, no record twice
JobLists ==
    {jobs \in SeqsUpTo(Jobs, MaxJobs) :
        \A i, j \in 1..Len(jobs) : jobs[i] = jobs[j] => i = j}

Retentions == {0, 1, CycleDaysThreshold}

(***************************************************************************)
(* State                                                                   *)
(*   now      the wall clock (datetime.now())                              *)
(*   history  JobTracker.history, the in-memory store                      *)
(*   file     job_history.json                                             *)
(*   pc       position of the running call or cycle                        *)
(*   caller   who runs the tracker: its API user or perform_job_search     *)
(*   call     arguments, locals and result of filter_new_jobs              *)
(*   last_op  the tracker operation completed last                         *)
(*   cfg      configuration of the search cycle                            *)
(*   obs      observations kept for the properties                         *)
(*   ret      what the tracker call completed last returned or raised      *)
(*   sweep    argument and locals of cleanup_old_history run as a call     *)
(*            of its own                                                   *)
(*   parked   the thread that is not running: its position and its locals  *)
(*   results  the files of job_results/: file name to the jobs it holds     *)
(***************************************************************************)
\* a local that has not been assigned
Unset == 0 - 1

NoCall ==
    [jobs |-> <<>>, days_threshold |-> 0, idx |-> 1, new_jobs |-> <<>>,
     current_date |-> 0, threshold_date |-> 0, first_seen |-> Unset]

\* rerun: the running filter_new_jobs call repeats the call before it (same
\*   list, same days_threshold, same calendar day, nothing run in between);
\* all_new: no record of the running call was skipped;
\* emitted_on: per job hash, the day a search cycle last emitted it.
NoObs == [rerun |-> FALSE, all_new |-> TRUE, emitted_on |-> EmptyMap]

\* Python values: None, a list, an int, a raised exception
None == <<"None">>
PyList(l) == <<"list", l>>
PyInt(n) == <<"int", n>>
Raised(exception) == <<"raise", exception>>

\* days_to_keep and what line 108 prints the sizes of
NoSweep ==
    [days_to_keep |-> DefaultDaysToKeep, jobs_to_remove |-> {},
     dates_to_remove |-> {}]

\* the scheduler thread runs; the worker thread of the server has no task
NoThread == [thread |-> "worker", pc |-> "idle", call |-> NoCall]

\* JobNotifier.__init__ on an empty job_results directory
NoResults == [filename \in {} |-> <<>>]

\* JobTracker.__init__ on an empty storage directory
Init ==
    /\ now = 0
    /\ history = FreshHistory(0)
    /\ file = NoFile
    /\ pc = "idle"
    /\ caller = "api"
    /\ call = NoCall
    /\ last_op = "init"
    /\ cfg = [days_threshold |-> CycleDaysThreshold, weekday0 |-> Monday]
    /\ obs = NoObs
    /\ ret = None
    /\ sweep = NoSweep
    /\ parked = NoThread
    /\ results = NoResults

(***************************************************************************)
(* The clock                                                               *)
(***************************************************************************)
\* The clock is followed on day 0, on the day after it and on the day the
\* entries of day 0 reach the age at which cleanup_old_history deletes them.
ObservedDays == {0, 1, DefaultDaysToKeep}

NextObservedDay(d) ==
    CHOOSE e \in ObservedDays :
        /\ e > d
        /\ \A f \in ObservedDays : f > d => e <= f

\* time passes within an observed day, or over midnight into the next one
Tick ==
    /\ date(now + 1) \in ObservedDays
    /\ now' = now + 1
    /\ UNCHANGED <<history, file, pc, caller, call, last_op, cfg, obs,
                   ret, sweep, parked, results>>

\* the process idles until midnight of the next observed day
Sleep ==
    /\ pc = "idle"
    /\ \E e \in ObservedDays : e > date(now)
    /\ now' = timedelta(NextObservedDay(date(now)))
    /\ UNCHANGED <<history, file, pc, caller, call, last_op, cfg, obs,
                   ret, sweep, parked, results>>

(***************************************************************************)
(* JobTracker.filter_new_jobs                                              *)
(***************************************************************************)
ThresholdDateOffByOne(current_date, days_threshold) ==
    current_date - (days_threshold - 1)

ThresholdDate(current_date, days_threshold) == current_date - days_threshold

SeenRecentlyInclusive(first_seen, threshold_date) == first_seen >= threshold_date

SeenRecentlyOlder(first_seen, threshold_date) == first_seen < threshold_date

SeenRecently(first_seen, threshold_date) == first_seen > threshold_date

EmitFront(new_jobs, job) == <<job>> \o new_jobs

Emit(new_jobs, job) == Append(new_jobs, job)

MarkSeenDateOnly(seen_jobs, job_hash, t) ==
    (job_hash :> isoformat(date(t) * TicksPerDay)) @@ seen_jobs

MarkSeenKeepFirst(seen_jobs, job_hash, t) ==
    seen_jobs @@ (job_hash :> isoformat(t))

MarkSeenAlone(seen_jobs, job_hash, t) == job_hash :> isoformat(t)

MarkSeen(seen_jobs, job_hash, t) == (job_hash :> isoformat(t)) @@ seen_jobs

\* the record the loop has reached, its hash and the branch taken
CurJob == call.jobs[call.idx]
CurHash == generate_job_hash(CurJob)
CurPresent == CurHash \in DOMAIN history.seen_jobs
CurFirstSeen == date(fromisoformat(history.seen_jobs[CurHash]))
CurSkipped == CurPresent /\ SeenRecently(CurFirstSeen, call.threshold_date)

FilterBegin(jobs, days_threshold) ==
    /\ pc' = "loop"
    /\ last_op' = "filter_new_jobs"
    /\ call' = [jobs |-> jobs, days_threshold |-> days_threshold, idx |-> 1,
                new_jobs |-> <<>>, current_date |-> date(now),
                threshold_date |-> ThresholdDate(date(now), days_threshold),
                first_seen |-> Unset]
    /\ obs' = [obs EXCEPT
                 !.all_new = TRUE,
                 !.rerun = /\ last_op = "filter_new_jobs"
                           /\ jobs = call.jobs
                           /\ days_threshold = call.days_threshold
                           /\ date(now) = call.current_date]
    /\ ret' = None
    /\ UNCHANGED <<now, history, file, cfg, sweep, parked, results>>

FilterStep ==
    /\ pc = "loop"
    /\ call.idx <= Len(call.jobs)
    /\ IF CurSkipped
       THEN /\ call' = [call EXCEPT !.idx = @ + 1, !.first_seen = CurFirstSeen]
            /\ obs' = [obs EXCEPT !.all_new = FALSE]
            /\ UNCHANGED history
       ELSE /\ call' = [call EXCEPT !.idx = @ + 1,
                                    !.new_jobs = Emit(@, CurJob),
                                    !.first_seen = IF CurPresent
                                                   THEN CurFirstSeen ELSE @]
            /\ history' = [history EXCEPT
                             !.seen_jobs = MarkSeen(@, CurHash, now)]
            /\ obs' = [obs EXCEPT
                         !.emitted_on = IF caller = "perform_job_search"
                                        THEN (CurHash :> date(now)) @@ @
                                        ELSE @]
    /\ UNCHANGED <<now, file, pc, caller, last_op, cfg, ret, sweep, parked, results>>

FilterReturn ==
    /\ pc = "loop"
    /\ call.idx > Len(call.jobs)
    /\ pc' = IF caller = "perform_job_search" THEN "record" ELSE "idle"
    /\ ret' = PyList(call.new_jobs)
    /\ UNCHANGED <<now, history, file, caller, call, last_op, cfg, obs,
                   sweep, parked, results>>

(***************************************************************************)
(* JobTracker.record_daily_count                                           *)
(***************************************************************************)
record_daily_count(job_count) ==
    /\ history' = [history EXCEPT
                     !.daily_counts = (date_isoformat(date(now)) :> job_count) @@ @]
    /\ last_op' = "record_daily_count"
    /\ ret' = None
    /\ UNCHANGED <<now, file, caller, cfg, sweep, parked, results>>

(***************************************************************************)
(* JobTracker.save_history, JobTracker.load_history                        *)
(***************************************************************************)
save_history ==
    /\ file' = [exists |-> TRUE, doc |-> json_dump(history)]
    /\ last_op' = "save_history"
    /\ ret' = None
    /\ UNCHANGED <<now, history, caller, cfg, sweep, parked, results>>

LoadedNoFallback(f, t) ==
    IF f.exists THEN json_load(f.doc) ELSE FreshHistory(t)

\* the history load_history ends with at time t: the parsed file, or the
\* fresh store when the file is absent or json.load raises
Loaded(f, t) ==
    IF f.exists /\ IsJson(f.doc) THEN json_load(f.doc) ELSE FreshHistory(t)

load_history ==
    /\ history' = Loaded(file, now)
    /\ last_op' = "load_history"
    /\ ret' = None
    /\ UNCHANGED <<now, file, caller, cfg, sweep, parked, results>>

(***************************************************************************)
(* JobTracker.cleanup_old_history                                          *)
(***************************************************************************)
Restrict(f, S) == [k \in S |-> f[k]]

jobs_to_remove_reversed(seen_jobs, cutoff_date) ==
    {job_hash \in DOMAIN seen_jobs : fromisoformat(seen_jobs[job_hash]) > cutoff_date}

jobs_to_remove_inclusive(seen_jobs, cutoff_date) ==
    {job_hash \in DOMAIN seen_jobs : fromisoformat(seen_jobs[job_hash]) <= cutoff_date}

jobs_to_remove(seen_jobs, cutoff_date) ==
    {job_hash \in DOMAIN seen_jobs : fromisoformat(seen_jobs[job_hash]) < cutoff_date}

dates_to_remove(daily_counts, cutoff_date) ==
    {date_str \in DOMAIN daily_counts :
        fromisoformat(Append(date_str, 0)) < cutoff_date}

cleanup_old_history_no_stamp(days_to_keep) ==
    LET cutoff_date == now - timedelta(days_to_keep)
    IN /\ history' =
            [seen_jobs |->
                Restrict(history.seen_jobs,
                         DOMAIN history.seen_jobs
                            \ jobs_to_remove(history.seen_jobs, cutoff_date)),
             daily_counts |->
                Restrict(history.daily_counts,
                         DOMAIN history.daily_counts
                            \ dates_to_remove(history.daily_counts, cutoff_date)),
             last_cleanup |-> history.last_cleanup]
       /\ last_op' = "cleanup_old_history"
       /\ ret' = None
       /\ UNCHANGED <<now, file, caller, cfg, parked, results>>

cleanup_old_history(days_to_keep) ==
    LET cutoff_date == now - timedelta(days_to_keep)
    IN /\ history' =
            [seen_jobs |->
                Restrict(history.seen_jobs,
                         DOMAIN history.seen_jobs
                            \ jobs_to_remove(history.seen_jobs, cutoff_date)),
             daily_counts |->
                Restrict(history.daily_counts,
                         DOMAIN history.daily_counts
                            \ dates_to_remove(history.daily_counts, cutoff_date)),
             last_cleanup |-> isoformat(now)]
       /\ last_op' = "cleanup_old_history"
       /\ ret' = None
       /\ UNCHANGED <<now, file, caller, cfg, parked, results>>

(***************************************************************************)
(* The tracker driven call by call, in any order.  The locals and the      *)
(* result of filter_new_jobs are dropped when another call is made.        *)
(***************************************************************************)
Forget ==
    /\ pc' = "idle"
    /\ call' = NoCall
    /\ obs' = [obs EXCEPT !.rerun = FALSE, !.all_new = TRUE]

ApiFilter ==
    /\ pc = "idle"
    /\ \E jobs \in JobLists, days_threshold \in Retentions :
          FilterBegin(jobs, days_threshold)
    /\ caller' = "api"

ApiRecord ==
    /\ pc = "idle"
    /\ \E job_count \in {0, MaxJobs} : record_daily_count(job_count)
    /\ Forget

ApiSave ==
    /\ pc = "idle"
    /\ save_history
    /\ Forget

\* load_history is run by JobTracker.__init__: a new tracker on the directory
ApiLoad ==
    /\ pc = "idle"
    /\ load_history
    /\ Forget

\* the New-Job Selector on the in-memory store
Next ==
    \/ Tick
    \/ Sleep
    \/ ApiFilter
    \/ FilterStep
    \/ FilterReturn

Spec == Init /\ [][Next]_vars

(***************************************************************************)
(* The tracker with its file: every call of the class, in any order,      *)
(* within one calendar day                                                 *)
(***************************************************************************)
StoreTick ==
    /\ date(now + 1) = date(now)
    /\ Tick

StoreLists == {<<>>, <<JobA>>, <<JobB>>, <<JobA, JobB>>}

StoreFilter ==
    /\ pc = "idle"
    /\ \E jobs \in StoreLists : FilterBegin(jobs, CycleDaysThreshold)
    /\ caller' = "api"

KeepDays == {0, DefaultDaysToKeep}

StoreCleanup ==
    /\ pc = "idle"
    /\ \E days_to_keep \in KeepDays : cleanup_old_history(days_to_keep)
    /\ Forget
    /\ UNCHANGED sweep

NextStore ==
    \/ StoreTick
    \/ StoreFilter
    \/ FilterStep
    \/ FilterReturn
    \/ ApiRecord
    \/ ApiSave
    \/ ApiLoad
    \/ StoreCleanup

SpecStore == Init /\ [][NextStore]_vars

(***************************************************************************)
(* The sweep beside the selector: filter_new_jobs, record_daily_count and  *)
(* cleanup_old_history called in any order over the observed days, the     *)
(* sweep with any maximum age.                                             *)
(***************************************************************************)
KeepAges == {0, 1, DefaultDaysToKeep}

SweepLists == {<<JobA>>, <<JobB>>}

SweepFilter ==
    /\ pc = "idle"
    /\ \E jobs \in SweepLists : FilterBegin(jobs, CycleDaysThreshold)
    /\ caller' = "api"

\* cleanup_old_history(days_to_keep) is called
SweepBegin ==
    /\ pc = "idle"
    /\ \E days_to_keep \in KeepAges :
          sweep' = [NoSweep EXCEPT !.days_to_keep = days_to_keep]
    /\ pc' = "sweep"
    /\ call' = NoCall
    /\ obs' = [obs EXCEPT !.rerun = FALSE, !.all_new = TRUE]
    /\ UNCHANGED <<now, history, file, caller, last_op, cfg, ret, parked, results>>

\* lines 87-108
SweepBody ==
    /\ pc = "sweep"
    /\ cleanup_old_history(sweep.days_to_keep)
    /\ sweep' = [sweep EXCEPT
                   !.jobs_to_remove =
                       jobs_to_remove(history.seen_jobs,
                                      now - timedelta(sweep.days_to_keep)),
                   !.dates_to_remove =
                       dates_to_remove(history.daily_counts,
                                       now - timedelta(sweep.days_to_keep))]
    /\ pc' = "idle"
    /\ UNCHANGED <<call, obs>>

SweepRecord ==
    /\ pc = "idle"
    /\ record_daily_count(MaxJobs)
    /\ Forget

\* filter_new_jobs as a function of the store, the list, days_threshold and
\* the time of the call (the clock standing still while it runs)
RECURSIVE filter_loop(_, _, _, _, _)
filter_loop(seen_jobs, jobs, new_jobs, threshold_date, t) ==
    IF jobs = <<>> THEN new_jobs
    ELSE LET job == Head(jobs)
             job_hash == generate_job_hash(job)
         IN IF /\ job_hash \in DOMAIN seen_jobs
               /\ SeenRecently(date(fromisoformat(seen_jobs[job_hash])),
                               threshold_date)
            THEN filter_loop(seen_jobs, Tail(jobs), new_jobs, threshold_date, t)
            ELSE filter_loop(MarkSeen(seen_jobs, job_hash, t), Tail(jobs),
                             Emit(new_jobs, job), threshold_date, t)

filter_new_jobs(seen_jobs, jobs, days_threshold, t) ==
    filter_loop(seen_jobs, jobs, <<>>, ThresholdDate(date(t), days_threshold), t)

\* seen_jobs after cleanup_old_history(days_to_keep) at time t
swept_jobs(seen_jobs, days_to_keep, t) ==
    Restrict(seen_jobs,
             DOMAIN seen_jobs \ jobs_to_remove(seen_jobs, t - timedelta(days_to_keep)))

NextSweep ==
    \/ Tick
    \/ Sleep
    \/ SweepFilter
    \/ FilterStep
    \/ FilterReturn
    \/ SweepRecord
    \/ SweepBegin
    \/ SweepBody

SpecSweep == Init /\ [][NextSweep]_vars

(***************************************************************************)
(* The search cycle: perform_job_search of main.py on the module-level     *)
(* tracker.  A cycle of main() of github_action_search.py is a process     *)
(* start followed by the same calls without the Monday sweep.  The records *)
(* that reach the tracker are the cycle's input: search_all_platforms has  *)
(* removed the records that repeat a (title, company) key.  days_threshold *)
(* is the cycle's retention window (3 in the source), weekday0 the weekday *)
(* of day 0.                                                               *)
(***************************************************************************)
dedup_key_raw(job) == <<job.title, job.company>>

dedup_key(job) == <<strip(lower(job.title)), strip(lower(job.company))>>

CycleLists ==
    {jobs \in JobLists :
        \A i, j \in 1..Len(jobs) : dedup_key(jobs[i]) = dedup_key(jobs[j]) => i = j}

CycleRetentions ==
    {CycleDaysThreshold, DefaultDaysToKeep, DefaultDaysToKeep + 1}

\* day 0 is the weekday that makes the last observed day a Monday
StartWeekdays == {(7 - (DefaultDaysToKeep % 7)) % 7}

InitCycle ==
    /\ now = 0
    /\ history = FreshHistory(0)
    /\ file = NoFile
    /\ pc = "idle"
    /\ caller = "perform_job_search"
    /\ call = NoCall
    /\ last_op = "load_history"
    /\ cfg \in [days_threshold : CycleRetentions, weekday0 : StartWeekdays]
    /\ obs = NoObs
    /\ ret = None
    /\ sweep = NoSweep
    /\ parked = NoThread
    /\ results = NoResults

\* process start: tracker = JobTracker()
Restart ==
    /\ pc = "idle"
    /\ last_op # "load_history"
    /\ load_history
    /\ pc' = "idle"
    /\ call' = NoCall
    /\ obs' = [obs EXCEPT !.rerun = FALSE, !.all_new = TRUE]

CycleFilter ==
    /\ pc = "idle"
    /\ \E jobs \in CycleLists : FilterBegin(jobs, cfg.days_threshold)
    /\ caller' = "perform_job_search"

CycleRecord ==
    /\ pc = "record"
    /\ record_daily_count(Len(call.new_jobs))
    /\ pc' = "save"
    /\ UNCHANGED <<call, obs>>

CycleSave ==
    /\ pc = "save"
    /\ save_history
    /\ pc' = "cleanup"
    /\ UNCHANGED <<call, obs>>

\* main.py: if datetime.now().weekday() == 0: tracker.cleanup_old_history()
CycleCleanup ==
    /\ pc = "cleanup"
    /\ weekday(date(now)) = Monday
    /\ cleanup_old_history(DefaultDaysToKeep)
    /\ pc' = "idle"
    /\ call' = NoCall
    /\ UNCHANGED <<obs, sweep>>

\* perform_job_search returns: its locals are gone
CycleNoCleanup ==
    /\ pc = "cleanup"
    /\ weekday(date(now)) # Monday
    /\ pc' = "idle"
    /\ call' = NoCall
    /\ UNCHANGED <<now, history, file, caller, last_op, cfg, obs,
                   ret, sweep, parked, results>>

NextCycle ==
    \/ Tick
    \/ Sleep
    \/ Restart
    \/ CycleFilter
    \/ FilterStep
    \/ FilterReturn
    \/ CycleRecord
    \/ CycleSave
    \/ CycleCleanup
    \/ CycleNoCleanup

SpecCycle == InitCycle /\ [][NextCycle]_vars

(***************************************************************************)
(* One posting offered by a search cycle on every calendar day: the days   *)
(* follow each other, a day has one cycle or more, every cycle is given    *)
(* the posting (from one board or the other), and a cycle does not run     *)
(* over midnight.                                                          *)
(***************************************************************************)
\* the days followed: two retention windows of the search cycle
DailyHorizon == 2 * CycleDaysThreshold

DailyRetentions == 1..CycleDaysThreshold

DailyLists == {<<JobA>>, <<JobA2>>}

InitDaily ==
    /\ now = 0
    /\ history = FreshHistory(0)
    /\ file = NoFile
    /\ pc = "idle"
    /\ caller = "perform_job_search"
    /\ call = NoCall
    /\ last_op = "load_history"
    /\ cfg \in [days_threshold : DailyRetentions, weekday0 : {Monday}]
    /\ obs = NoObs
    /\ ret = None
    /\ sweep = NoSweep
    /\ parked = NoThread
    /\ results = NoResults

\* the cycle of today has run: its count is recorded
RanToday == date_isoformat(date(now)) \in DOMAIN history.daily_counts

\* the process idles until the next day
Midnight ==
    /\ pc = "idle"
    /\ RanToday
    /\ date(now) < DailyHorizon
    /\ now' = timedelta(date(now) + 1)
    /\ UNCHANGED <<history, file, pc, caller, call, last_op, cfg, obs,
                   ret, sweep, parked, results>>

DailyFilter ==
    /\ pc = "idle"
    /\ \E jobs \in DailyLists : FilterBegin(jobs, cfg.days_threshold)
    /\ UNCHANGED <<caller, results>>

NextDaily ==
    \/ StoreTick
    \/ Midnight
    \/ DailyFilter
    \/ FilterStep
    \/ FilterReturn
    \/ CycleRecord
    \/ CycleSave
    \/ CycleCleanup
    \/ CycleNoCleanup

SpecDaily == InitDaily /\ [][NextDaily]_vars

(***************************************************************************)
(* The search cycle on a damaged history: files that hold no JSON, JSON    *)
(* without the expected keys, timestamps that are not ISO-8601, a file     *)
(* that cannot be opened or written.  A raised exception leaves the cycle  *)
(* at "raised" until the except clause of perform_job_search (or of main   *)
(* of github_action_search.py, which exits) has handled it.                *)
(***************************************************************************)
\* an empty file: what open(..., 'w') leaves behind when the write fails
Truncated == [raw |-> <<>>]

\* a seen_jobs value datetime.fromisoformat rejects
NotIso == <<>>

IsIso(date_str) == Len(date_str) = 2

StampedA == generate_job_hash(JobA) :> isoformat(0)

FaultDocs ==
    {Truncated,
     json_dump(FreshHistory(0)),
     json_dump([FreshHistory(0) EXCEPT !.seen_jobs = StampedA]),
     EmptyMap,
     [daily_counts |-> {}, last_cleanup |-> isoformat(0)],
     [seen_jobs |-> Members(StampedA), last_cleanup |-> isoformat(0)],
     [seen_jobs |-> {<<generate_job_hash(JobA), NotIso>>},
      daily_counts |-> {}, last_cleanup |-> isoformat(0)]}

FaultFiles == {NoFile} \cup {[exists |-> TRUE, doc |-> doc] : doc \in FaultDocs}

\* tracker = JobTracker() on a directory that holds any of these files
InitFault ==
    /\ now = 0
    /\ file \in FaultFiles
    /\ history = Loaded(file, 0)
    /\ pc = "idle"
    /\ caller = "perform_job_search"
    /\ call = NoCall
    /\ last_op = "load_history"
    /\ cfg = [days_threshold |-> CycleDaysThreshold, weekday0 |-> Monday]
    /\ obs = NoObs
    /\ ret = None
    /\ sweep = NoSweep
    /\ parked = NoThread
    /\ results = NoResults

\* load_history when open() raises: the except clause builds the fresh store
load_history_unreadable ==
    /\ history' = FreshHistory(now)
    /\ last_op' = "load_history"
    /\ ret' = None
    /\ UNCHANGED <<now, file, caller, cfg, sweep, parked, results>>

save_history_raises ==
    /\ file' \in {file, [exists |-> TRUE, doc |-> Truncated]}
    /\ last_op' = "save_history"
    /\ ret' = Raised("OSError")
    /\ UNCHANGED <<now, history, caller, cfg, sweep, parked, results>>

\* save_history when open() or the write raises: the file is untouched, or
\* it was truncated by open(); the except clause only prints
save_history_fails ==
    /\ file' \in {file, [exists |-> TRUE, doc |-> Truncated]}
    /\ last_op' = "save_history"
    /\ ret' = None
    /\ UNCHANGED <<now, history, caller, cfg, sweep, parked, results>>

\* the exception an operation raises on the history, None when it raises none
FilterError ==
    IF "seen_jobs" \notin DOMAIN history THEN Raised("KeyError")
    ELSE IF CurPresent /\ ~IsIso(history.seen_jobs[CurHash]) THEN Raised("ValueError")
    ELSE None

RecordError ==
    IF "daily_counts" \notin DOMAIN history THEN Raised("KeyError") ELSE None

CleanupError ==
    IF "seen_jobs" \notin DOMAIN history THEN Raised("KeyError")
    ELSE IF \E job_hash \in DOMAIN history.seen_jobs :
                ~IsIso(history.seen_jobs[job_hash]) THEN Raised("ValueError")
    ELSE IF "daily_counts" \notin DOMAIN history THEN Raised("KeyError")
    ELSE None

FaultRestart ==
    /\ pc = "idle"
    /\ last_op # "load_history"
    /\ \/ load_history
       \/ load_history_unreadable
    /\ pc' = "idle"
    /\ call' = NoCall
    /\ obs' = [obs EXCEPT !.rerun = FALSE, !.all_new = TRUE]

FaultFilterStep ==
    /\ pc = "loop"
    /\ call.idx <= Len(call.jobs)
    /\ FilterError = None
    /\ FilterStep

\* line 57 or line 59 raises
FilterRaises ==
    /\ pc = "loop"
    /\ call.idx <= Len(call.jobs)
    /\ FilterError # None
    /\ pc' = "raised"
    /\ ret' = FilterError
    /\ UNCHANGED <<now, history, file, caller, call, last_op, cfg, obs,
                   sweep, parked, results>>

FaultRecord ==
    /\ RecordError = None
    /\ CycleRecord

\* line 72 raises
RecordRaises ==
    /\ pc = "record"
    /\ RecordError # None
    /\ pc' = "raised"
    /\ last_op' = "record_daily_count"
    /\ ret' = RecordError
    /\ UNCHANGED <<now, history, file, caller, call, cfg, obs, sweep, parked, results>>

CycleSaveFails ==
    /\ pc = "save"
    /\ save_history_fails
    /\ pc' = "cleanup"
    /\ UNCHANGED <<call, obs>>

FaultCleanup ==
    /\ CleanupError = None
    /\ CycleCleanup

\* line 91, 92 or 100 raises; line 100 is reached after the entries of
\* seen_jobs have been deleted
CleanupRaises ==
    /\ pc = "cleanup"
    /\ weekday(date(now)) = Monday
    /\ CleanupError # None
    /\ pc' = "raised"
    /\ last_op' = "cleanup_old_history"
    /\ ret' = CleanupError
    /\ history' =
          IF "seen_jobs" \in DOMAIN history
                /\ \A job_hash \in DOMAIN history.seen_jobs :
                      IsIso(history.seen_jobs[job_hash])
          THEN [history EXCEPT
                  !.seen_jobs =
                      Restrict(@, DOMAIN @
                          \ jobs_to_remove(@, now - timedelta(DefaultDaysToKeep)))]
          ELSE history
    /\ UNCHANGED <<now, file, caller, call, cfg, obs, sweep, parked, results>>

\* main.py: except Exception as e: ... return []
Catch ==
    /\ pc = "raised"
    /\ pc' = "idle"
    /\ call' = NoCall
    /\ UNCHANGED <<now, history, file, caller, last_op, cfg, obs, ret,
                   sweep, parked, results>>

NextFault ==
    \/ StoreTick
    \/ FaultRestart
    \/ CycleFilter
    \/ FaultFilterStep
    \/ FilterRaises
    \/ FilterReturn
    \/ FaultRecord
    \/ RecordRaises
    \/ CycleSave
    \/ CycleSaveFails
    \/ FaultCleanup
    \/ CleanupRaises
    \/ Catch

SpecFault == InitFault /\ [][NextFault]_vars

(***************************************************************************)
(* The search cycle with its notifier: JobNotifier.save_jobs and           *)
(* create_html_report after the history has been saved.  NOTIFICATION_EMAIL*)
(* is empty, so no mail is sent.  Writing a file of job_results/ may fail. *)
(***************************************************************************)
\* f"jobs_{timestamp}.json" and f"job_report_{timestamp}.html"
jobs_filename(t) == <<"jobs">> \o isoformat(t)
report_filename(t) == <<"job_report">> \o isoformat(t)

InitDeliver ==
    /\ now = 0
    /\ history = FreshHistory(0)
    /\ file = NoFile
    /\ pc = "idle"
    /\ caller = "perform_job_search"
    /\ call = NoCall
    /\ last_op = "load_history"
    /\ cfg \in [days_threshold : {CycleDaysThreshold}, weekday0 : {Monday, Monday + 1}]
    /\ obs = NoObs
    /\ ret = None
    /\ sweep = NoSweep
    /\ parked = NoThread
    /\ results = NoResults

\* main.py lines 77-78 on a Monday, the notifier to come
DeliverCleanup ==
    /\ pc = "cleanup"
    /\ weekday(date(now)) = Monday
    /\ cleanup_old_history(DefaultDaysToKeep)
    /\ pc' = "notify"
    /\ UNCHANGED <<call, obs, sweep>>

DeliverNoCleanup ==
    /\ pc = "cleanup"
    /\ weekday(date(now)) # Monday
    /\ pc' = "notify"
    /\ UNCHANGED <<now, history, file, caller, call, last_op, cfg, obs,
                   ret, sweep, parked, results>>

\* notifier.save_jobs(filtered_jobs)
save_jobs(jobs) ==
    /\ results' = (jobs_filename(now) :> jobs) @@ results
    /\ last_op' = "save_jobs"
    /\ ret' = jobs_filename(now)
    /\ UNCHANGED <<now, history, file, caller, cfg, sweep, parked>>

\* open(filepath, 'w') or json.dump raises
save_jobs_raises ==
    /\ last_op' = "save_jobs"
    /\ ret' = Raised("OSError")
    /\ UNCHANGED <<now, history, file, caller, cfg, sweep, parked, results>>

\* notifier.create_html_report(jobs)
create_html_report(jobs) ==
    /\ results' = (report_filename(now) :> jobs) @@ results
    /\ last_op' = "create_html_report"
    /\ ret' = report_filename(now)
    /\ UNCHANGED <<now, history, file, caller, cfg, sweep, parked>>

create_html_report_raises ==
    /\ last_op' = "create_html_report"
    /\ ret' = Raised("OSError")
    /\ UNCHANGED <<now, history, file, caller, cfg, sweep, parked, results>>

DeliverSave ==
    /\ pc = "notify"
    /\ save_jobs(call.new_jobs)
    /\ pc' = "report"
    /\ UNCHANGED <<call, obs>>

DeliverSaveRaises ==
    /\ pc = "notify"
    /\ save_jobs_raises
    /\ pc' = "raised"
    /\ UNCHANGED <<call, obs>>

\* if filtered_jobs: report_file = notifier.create_html_report(filtered_jobs)
\* and return filtered_jobs
DeliverReport ==
    /\ pc = "report"
    /\ call.new_jobs # <<>>
    /\ create_html_report(call.new_jobs)
    /\ pc' = "idle"
    /\ call' = NoCall
    /\ UNCHANGED obs

DeliverReportRaises ==
    /\ pc = "report"
    /\ call.new_jobs # <<>>
    /\ create_html_report_raises
    /\ pc' = "raised"
    /\ UNCHANGED <<call, obs>>

DeliverNoReport ==
    /\ pc = "report"
    /\ call.new_jobs = <<>>
    /\ pc' = "idle"
    /\ call' = NoCall
    /\ UNCHANGED <<now, history, file, caller, last_op, cfg, obs,
                   ret, sweep, parked, results>>

NextDeliver ==
    \/ StoreTick
    \/ CycleFilter
    \/ FilterStep
    \/ FilterReturn
    \/ CycleRecord
    \/ CycleSave
    \/ DeliverCleanup
    \/ DeliverNoCleanup
    \/ DeliverSave
    \/ DeliverSaveRaises
    \/ DeliverReport
    \/ DeliverReportRaises
    \/ DeliverNoReport
    \/ Catch

SpecDeliver == InitDeliver /\ [][NextDeliver]_vars

(***************************************************************************)
(* The server's two threads on the module-level tracker: the scheduler     *)
(* thread, which runs the daily and the interval job one after the other   *)
(* (schedule.run_pending), and a worker thread that runs the background    *)
(* task of /trigger-search.  Neither takes a lock.  One thread runs at a   *)
(* time; the interpreter may switch between them at any step.              *)
(***************************************************************************)
RunningThread == IF parked.thread = "worker" THEN "scheduler" ELSE "worker"

Switch ==
    /\ pc' = parked.pc
    /\ call' = parked.call
    /\ parked' = [thread |-> RunningThread, pc |-> pc, call |-> call]
    /\ UNCHANGED <<now, history, file, caller, last_op, cfg, obs, ret, sweep,
                   results>>

InitThreads ==
    /\ now = 0
    /\ history = FreshHistory(0)
    /\ file = NoFile
    /\ pc = "idle"
    /\ caller = "perform_job_search"
    /\ call = NoCall
    /\ last_op = "load_history"
    /\ cfg \in [days_threshold : {CycleDaysThreshold}, weekday0 : StartWeekdays]
    /\ obs = NoObs
    /\ ret = None
    /\ sweep = NoSweep
    /\ parked = NoThread
    /\ results = NoResults

\* Between two threads one pass of the loop of filter_new_jobs is not one
\* step: lines 55-61 decide to skip the record or to emit it ...
ThreadCheck ==
    /\ pc = "loop"
    /\ call.idx <= Len(call.jobs)
    /\ IF CurSkipped
       THEN /\ call' = [call EXCEPT !.idx = @ + 1, !.first_seen = CurFirstSeen]
            /\ obs' = [obs EXCEPT !.all_new = FALSE]
            /\ pc' = "loop"
       ELSE /\ call' = [call EXCEPT !.first_seen = IF CurPresent
                                                   THEN CurFirstSeen ELSE @]
            /\ pc' = "emit"
            /\ UNCHANGED obs
    /\ UNCHANGED <<now, history, file, caller, last_op, cfg, ret, sweep,
                   parked, results>>

\* ... and lines 64-65 emit it and stamp its fingerprint
ThreadEmit ==
    /\ pc = "emit"
    /\ call' = [call EXCEPT !.idx = @ + 1, !.new_jobs = Emit(@, CurJob)]
    /\ history' = [history EXCEPT !.seen_jobs = MarkSeen(@, CurHash, now)]
    /\ obs' = [obs EXCEPT !.emitted_on = (CurHash :> date(now)) @@ @]
    /\ pc' = "loop"
    /\ UNCHANGED <<now, file, caller, last_op, cfg, ret, sweep, parked, results>>

\* scheduler.add_daily_job(perform_job_search, "09:00") and
\* scheduler.add_interval_job(perform_job_search, 360): a job comes due
ScheduledSearch ==
    /\ RunningThread = "scheduler"
    /\ pc = "idle"
    /\ \E jobs \in StoreLists : FilterBegin(jobs, cfg.days_threshold)
    /\ caller' = "perform_job_search"

\* background_tasks.add_task(perform_job_search): the task starts
TriggerSearch ==
    /\ RunningThread = "worker"
    /\ pc = "idle"
    /\ \E jobs \in StoreLists : FilterBegin(jobs, cfg.days_threshold)
    /\ caller' = "perform_job_search"

NextThreads ==
    \/ StoreTick
    \/ Switch
    \/ ScheduledSearch
    \/ TriggerSearch
    \/ ThreadCheck
    \/ ThreadEmit
    \/ FilterReturn
    \/ CycleRecord
    \/ CycleSave
    \/ CycleNoCleanup

SpecThreads == InitThreads /\ [][NextThreads]_vars

(***************************************************************************)
(* Cross-source deduplication: JobSearcher._deduplicate_jobs and the final *)
(* loop of JobSearcherV2.search_operations_jobs                            *)
(***************************************************************************)
\* the code point order of the characters of the model
ord(c) ==
    CASE c = " " -> 32
      [] c = "-" -> 45
      [] c = "1" -> 49
      [] c = "2" -> 50
      [] c = "A" -> 65
      [] c = "B" -> 66
      [] c = "D" -> 68
      [] c = "a" -> 97
      [] c = "b" -> 98
      [] c = "d" -> 100
      [] c = "e" -> 101
      [] c = "h" -> 104
      [] c = "l" -> 108
      [] c = "o" -> 111
      [] c = "p" -> 112
      [] c = "r" -> 114
      [] c = "s" -> 115

\* str < str
RECURSIVE str_less(_, _)
str_less(u, v) ==
    IF v = <<>> THEN FALSE
    ELSE IF u = <<>> THEN TRUE
    ELSE IF Head(u) = Head(v) THEN str_less(Tail(u), Tail(v))
    ELSE ord(Head(u)) < ord(Head(v))

\* str.split(): the words between runs of blanks
RECURSIVE split(_)
split(s) ==
    LET t == lstrip(s)
    IN IF t = <<>> THEN <<>>
       ELSE LET blanks == {i \in 1..Len(t) : IsSpace(t[i])}
                n == IF blanks = {} THEN Len(t) + 1
                     ELSE CHOOSE i \in blanks : \A j \in blanks : i <= j
            IN <<SubSeq(t, 1, n - 1)>> \o split(SubSeq(t, n, Len(t)))

\* set(list)
set(q) == {q[i] : i \in 1..Len(q)}

\* sorted(set of str)
RECURSIVE sorted(_)
sorted(S) ==
    IF S = {} THEN <<>>
    ELSE LET least == CHOOSE x \in S : \A y \in S : x = y \/ str_less(x, y)
         IN <<least>> \o sorted(S \ {least})

\* '-'.join(list of str)
RECURSIVE join(_)
join(q) ==
    IF q = <<>> THEN <<>>
    ELSE IF Len(q) = 1 THEN q[1]
    ELSE q[1] \o <<"-">> \o join(Tail(q))

\* key = f"{'-'.join(sorted(title_words))}-{'-'.join(sorted(company_words))}"
normalized_key(job) ==
    join(sorted(set(split(strip(lower(job.title))))))
        \o <<"-">> \o join(sorted(set(split(strip(lower(job.company))))))

\* seen_combinations holds keys (str) and exact keys (tuple), which never
\* equal each other: seen_keys and seen_exact are its two parts
RECURSIVE deduplicate_loop(_, _, _, _)
deduplicate_loop(jobs, unique_jobs, seen_keys, seen_exact) ==
    IF jobs = <<>> THEN unique_jobs
    ELSE LET job == Head(jobs)
             key == normalized_key(job)
             exact_key == dedup_key(job)
         IN IF key \notin seen_keys /\ exact_key \notin seen_exact
            THEN deduplicate_loop(Tail(jobs), Append(unique_jobs, job),
                                  seen_keys \cup {key}, seen_exact \cup {exact_key})
            ELSE deduplicate_loop(Tail(jobs), unique_jobs, seen_keys, seen_exact)

deduplicate_jobs(jobs) == deduplicate_loop(jobs, <<>>, {}, {})

RECURSIVE unique_loop(_, _, _)
unique_loop(all_jobs, unique_jobs, seen) ==
    IF all_jobs = <<>> THEN unique_jobs
    ELSE LET job == Head(all_jobs)
             key == dedup_key(job)
         IN IF key \notin seen
            THEN unique_loop(Tail(all_jobs), Append(unique_jobs, job),
                             seen \cup {key})
            ELSE unique_loop(Tail(all_jobs), unique_jobs, seen)

\* lines 332-342 of search_operations_jobs
search_operations_unique(all_jobs) == unique_loop(all_jobs, <<>>, {})

DedupTitles ==
    {<<"a", " ", "b">>, <<"b", " ", "a">>, <<"A", " ", "b", " ">>, <<"a">>,
     <<"a", "-", "b">>}

DedupCompanies == {<<"d">>, <<"D", " ">>, <<"b", " ", "d">>}

DedupJobs ==
    [title : DedupTitles, company : DedupCompanies, location : {<<"D">>},
     url : {<<"1">>, <<"2">>}, source : {"Indeed"}]

DedupLists == SeqsUpTo(DedupJobs, MaxJobs)

DedupCall ==
    /\ pc = "idle"
    /\ last_op = "init"
    /\ \E jobs \in DedupLists :
          /\ call' = [NoCall EXCEPT !.jobs = jobs]
          /\ ret' = PyList(deduplicate_jobs(jobs))
    /\ last_op' = "_deduplicate_jobs"
    /\ UNCHANGED <<now, history, file, pc, caller, cfg, obs, sweep, parked, results>>

DedupCallV2 ==
    /\ pc = "idle"
    /\ last_op = "init"
    /\ \E jobs \in DedupLists :
          /\ call' = [NoCall EXCEPT !.jobs = jobs]
          /\ ret' = PyList(search_operations_unique(jobs))
    /\ last_op' = "search_operations_jobs"
    /\ UNCHANGED <<now, history, file, pc, caller, cfg, obs, sweep, parked, results>>

NextDedup ==
    \/ DedupCall
    \/ DedupCallV2

SpecDedup == Init /\ [][NextDedup]_vars

(***************************************************************************)
(* Text tests of the scrapers and filters: the operator "in" on str, and   *)
(* re.search with the salary and experience patterns.  The texts of the    *)
(* model hold no ".", "," or rupee sign, so the optional decimal and       *)
(* thousands parts of the patterns never take part in a match.             *)
(***************************************************************************)
\* sub in s
contains(sub, s) ==
    \E i \in 1..(Len(s) - Len(sub) + 1) : SubSeq(s, i, i + Len(sub) - 1) = sub

\* any(keyword in s for keyword in keywords)
any_in(keywords, s) == \E keyword \in keywords : contains(keyword, s)

\* \d
IsDigit(c) == c \in {"0", "1", "2", "3", "4", "5", "6", "7", "8", "9"}

DigitValue(c) ==
    CASE c = "0" -> 0 [] c = "1" -> 1 [] c = "2" -> 2 [] c = "3" -> 3
      [] c = "4" -> 4 [] c = "5" -> 5 [] c = "6" -> 6 [] c = "7" -> 7
      [] c = "8" -> 8 [] c = "9" -> 9

\* the position after the longest run of \d (of \s) that starts at i
RECURSIVE after_digits(_, _)
after_digits(s, i) ==
    IF i <= Len(s) /\ IsDigit(s[i]) THEN after_digits(s, i + 1) ELSE i

RECURSIVE after_spaces(_, _)
after_spaces(s, i) ==
    IF i <= Len(s) /\ IsSpace(s[i]) THEN after_spaces(s, i + 1) ELSE i

\* float(digits)
RECURSIVE float(_)
float(digits) ==
    IF digits = <<>> THEN 0
    ELSE 10 * float(SubSeq(digits, 1, Len(digits) - 1)) + DigitValue(digits[Len(digits)])

\* s has one of the words at position i
word_at(words, s, i) ==
    \E w \in words : i + Len(w) - 1 <= Len(s) /\ SubSeq(s, i, i + Len(w) - 1) = w

\* (\d+)\s*(?:-\s*\d+)?\s*(?:units) matches s at position i.  A shorter run
\* of digits never helps the match, a digit being no blank, "-" or unit.
amount_at(units, s, i) ==
    LET j == after_digits(s, i)
        k == after_spaces(s, j)
        m == IF k <= Len(s) /\ s[k] = "-" THEN after_spaces(s, k + 1) ELSE k
        n == after_digits(s, m)
    IN /\ j > i
       /\ \/ m > k /\ n > m /\ word_at(units, s, after_spaces(s, n))
          \/ word_at(units, s, k)

\* re.search(pattern, s).group(1) as a number, None when nothing matches
amount_search(units, s) ==
    LET starts == {i \in 1..Len(s) : amount_at(units, s, i)}
    IN IF starts = {} THEN None
       ELSE LET i == CHOOSE i \in starts : \A j \in starts : i <= j
            IN PyInt(float(SubSeq(s, i, after_digits(s, i) - 1)))

(***************************************************************************)
(* The custom Indeed path of JobSearcherV2.search_operations_jobs:         *)
(* IndeedScraper (parse_job_card, scrape_page, search_jobs,                *)
(* filter_operations_jobs), the conversion to the standard record, the     *)
(* salary test and the final duplicate removal; then filter_new_jobs as    *)
(* main() of github_action_search_v2.py calls it.  JobSpy finds no rows.   *)
(* A job card is the record of what card.find returns for each element:    *)
(* its stripped text, or None.                                             *)
(***************************************************************************)
\* a dict with the one key given, the dict without keys
Entry(key, value) == key :> value
NoEntry == [key \in {} |-> None]

\* bool(value) of a str or None
Truthy(value) == value # None /\ value # <<>>

\* BeautifulSoup get_text(strip=True) of an element with one text node
get_text(elem) == strip(elem)

parse_job_card(card) ==
    (IF card.jobTitle # None
     THEN Entry("title", get_text(card.jobTitle))
              @@ Entry("url", IF card.href # None
                              THEN <<"i">> \o card.href ELSE <<>>)
     ELSE NoEntry)
    @@ (IF card.company_location
        THEN Entry("company", IF card.company_name # None
                              THEN get_text(card.company_name) ELSE <<>>)
                 @@ Entry("location", IF card.job_location # None
                                      THEN get_text(card.job_location) ELSE <<>>)
        ELSE NoEntry)
    @@ Entry("salary", IF card.salary_snippet # None
                       THEN get_text(card.salary_snippet)
                       ELSE <<"N", "o", "t", " ", "s", "p", "e", "c", "i", "f", "i", "e", "d">>)
    @@ Entry("source", "Indeed")

\* scrape_page: for card in job_cards: if job.get('title'): jobs.append(job)
RECURSIVE scrape_page(_)
scrape_page(job_cards) ==
    IF job_cards = <<>> THEN <<>>
    ELSE LET job == parse_job_card(Head(job_cards))
         IN (IF Truthy(get(job, "title", None)) THEN <<job>> ELSE <<>>)
                \o scrape_page(Tail(job_cards))

\* IndeedScraper.search_jobs: remove duplicates based on URL
RECURSIVE unique_urls(_, _)
unique_urls(all_jobs, seen_urls) ==
    IF all_jobs = <<>> THEN <<>>
    ELSE LET job == Head(all_jobs)
         IN IF Truthy(job.url) /\ job.url \notin seen_urls
            THEN <<job>> \o unique_urls(Tail(all_jobs), seen_urls \cup {job.url})
            ELSE IF ~Truthy(job.url)
            THEN <<job>> \o unique_urls(Tail(all_jobs), seen_urls)
            ELSE unique_urls(Tail(all_jobs), seen_urls)

indeed_search_jobs(job_cards) == unique_urls(scrape_page(job_cards), {})

operations_keywords ==
    {<<"o", "p", "e", "r", "a", "t", "i", "o", "n", "s">>,
     <<"c", "o", "o", "r", "d", "i", "n", "a", "t", "o", "r">>,
     <<"e", "x", "e", "c", "u", "t", "i", "v", "e">>,
     <<"a", "s", "s", "o", "c", "i", "a", "t", "e">>,
     <<"a", "n", "a", "l", "y", "s", "t">>,
     <<"a", "d", "m", "i", "n">>,
     <<"p", "r", "o", "g", "r", "a", "m">>,
     <<"b", "u", "s", "i", "n", "e", "s", "s", " ", "o", "p", "e", "r", "a", "t", "i", "o", "n", "s">>}

RECURSIVE filter_operations_jobs(_)
filter_operations_jobs(jobs) ==
    IF jobs = <<>> THEN <<>>
    ELSE LET title_lower == lower(get(Head(jobs), "title", <<>>))
         IN (IF any_in(operations_keywords, title_lower) THEN <<Head(jobs)>> ELSE <<>>)
                \o filter_operations_jobs(Tail(jobs))

\* lines 306-318: the record in the standard format (the fields the
\* tracker and the salary test read, and the constant ones)
standardized_job(job) ==
    [title |-> get(job, "title", <<>>),
     company |-> get(job, "company", <<>>),
     location |-> get(job, "location", <<>>),
     salary |-> get(job, "salary", <<"C", "h", "e", "c", "k", " ", "j", "o", "b", " ", "d", "e", "s", "c", "r", "i", "p", "t", "i", "o", "n">>),
     experience |-> <<"E", "n", "t", "r", "y", " ", "l", "e", "v", "e", "l">>,
     url |-> get(job, "url", <<>>),
     source |-> "Indeed"]

\* JobSearcherV2._job_meets_salary_requirement
job_meets_salary_requirement(job, min_salary_lpa) ==
    LET salary_text == lower(get(job, "salary", <<>>))
        lpa == amount_search({<<"l", "p", "a">>}, salary_text)
        lakh == amount_search({<<"l", "a", "k", "h">>, <<"l", "a", "c">>}, salary_text)
    IN IF \/ salary_text = <<>>
          \/ salary_text = <<"c", "h", "e", "c", "k", " ", "j", "o", "b", " ", "d", "e", "s", "c", "r", "i", "p", "t", "i", "o", "n">>
          \/ contains(<<"n", "o", "t", " ", "s", "p", "e", "c", "i", "f", "i", "e", "d">>, salary_text)
       THEN TRUE
       ELSE IF lpa # None THEN lpa[2] >= min_salary_lpa
       ELSE IF lakh # None THEN lakh[2] >= min_salary_lpa
       ELSE TRUE

RECURSIVE standardize_loop(_, _)
standardize_loop(indeed_ops_jobs, min_salary_lpa) ==
    IF indeed_ops_jobs = <<>> THEN <<>>
    ELSE LET job == standardized_job(Head(indeed_ops_jobs))
         IN (IF job_meets_salary_requirement(job, min_salary_lpa)
             THEN <<job>> ELSE <<>>)
                \o standardize_loop(Tail(indeed_ops_jobs), min_salary_lpa)

\* all_jobs of search_operations_jobs before the duplicates are removed
search_operations_all(job_cards, min_salary_lpa) ==
    standardize_loop(filter_operations_jobs(indeed_search_jobs(job_cards)),
                     min_salary_lpa)

search_operations_jobs(job_cards, min_salary_lpa) ==
    search_operations_unique(search_operations_all(job_cards, min_salary_lpa))

\* github_action_search_v2.py: min_salary_lpa = 9
MinSalaryLpaV2 == 9

CardTitles == {None, <<"a", "d", "m", "i", "n">>, <<"h", "r">>}

\* no company_location element; the element without a company-name span;
\* the element with both spans
CardCompanies ==
    {[company_location |-> FALSE, company_name |-> None, job_location |-> None],
     [company_location |-> TRUE, company_name |-> None, job_location |-> <<"d">>],
     [company_location |-> TRUE, company_name |-> <<"b">>, job_location |-> <<"d">>]}

CardLinks ==
    {[href |-> <<"1">>, salary_snippet |-> None],
     [href |-> <<"1">>, salary_snippet |-> <<"5", " ", "l", "p", "a">>],
     [href |-> None, salary_snippet |-> <<"1", "2", " ", "l", "p", "a">>]}

JobCards ==
    {[jobTitle |-> t] @@ c @@ l : t \in CardTitles, c \in CardCompanies, l \in CardLinks}

CardLists == SeqsUpTo(JobCards, MaxJobs)

\* all_jobs = searcher.search_operations_jobs(...), once in the process that
\* runs main(); call.jobs holds the list before the duplicates are removed
IntakeSearch ==
    /\ pc = "idle"
    /\ last_op = "init"
    /\ \E job_cards \in CardLists :
          /\ call' = [NoCall EXCEPT
                        !.jobs = search_operations_all(job_cards, MinSalaryLpaV2)]
          /\ ret' = PyList(search_operations_jobs(job_cards, MinSalaryLpaV2))
    /\ pc' = "found"
    /\ caller' = "github_action_search_v2"
    /\ last_op' = "search_operations_jobs"
    /\ obs' = [obs EXCEPT !.rerun = FALSE, !.all_new = TRUE]
    /\ UNCHANGED <<now, history, file, cfg, sweep, parked, results>>

\* new_jobs = tracker.filter_new_jobs(all_jobs, days_threshold=3)
IntakeFilter ==
    /\ pc = "found"
    /\ FilterBegin(ret[2], CycleDaysThreshold)
    /\ UNCHANGED caller

NextIntake ==
    \/ StoreTick
    \/ IntakeSearch
    \/ IntakeFilter
    \/ FilterStep
    \/ FilterReturn

SpecIntake == Init /\ [][NextIntake]_vars

(***************************************************************************)
(* The JobSearcher pipeline of perform_job_search (main.py lines 52-70):   *)
(* search_all_platforms with its deduplication, filter_by_location,        *)
(* filter_entry_level, filter_by_salary, then filter_new_jobs.  The texts  *)
(* of the model hold none of "year", "annual" and "p.a.", so the annual    *)
(* pattern of _extract_salary_lpa matches none of them.                    *)
(***************************************************************************)
\* main.py: PREFERRED_LOCATIONS and MIN_SALARY_LPA without environment
PREFERRED_LOCATIONS ==
    <<<<"g", "u", "r", "u", "g", "r", "a", "m">>, <<"g", "u", "r", "g", "a", "o", "n">>, <<"d", "e", "l", "h", "i">>,
      <<"n", "e", "w", " ", "d", "e", "l", "h", "i">>, <<"n", "o", "i", "d", "a">>>>

MIN_SALARY_LPA == 900000 \div 100000

\* [loc.lower().strip() for loc in preferred_locations]
normalized(preferred_locations) ==
    [i \in 1..Len(preferred_locations) |-> strip(lower(preferred_locations[i]))]

RECURSIVE append_if_preferred_no_break(_, _, _)
append_if_preferred_no_break(job, job_location, normalized_locations) ==
    IF normalized_locations = <<>> THEN <<>>
    ELSE (IF contains(Head(normalized_locations), job_location) THEN <<job>> ELSE <<>>)
             \o append_if_preferred_no_break(job, job_location,
                                              Tail(normalized_locations))

\* for preferred_loc in normalized_locations:
\*     if preferred_loc in job_location: filtered_jobs.append(job); break
RECURSIVE append_if_preferred(_, _, _)
append_if_preferred(job, job_location, normalized_locations) ==
    IF normalized_locations = <<>> THEN <<>>
    ELSE IF contains(Head(normalized_locations), job_location) THEN <<job>>
    ELSE append_if_preferred(job, job_location, Tail(normalized_locations))

RECURSIVE filter_by_location(_, _)
filter_by_location(jobs, preferred_locations) ==
    IF jobs = <<>> THEN <<>>
    ELSE append_if_preferred(Head(jobs), lower(get(Head(jobs), "location", <<>>)),
                             normalized(preferred_locations))
             \o filter_by_location(Tail(jobs), preferred_locations)

entry_keywords ==
    {<<"e", "n", "t", "r", "y">>,
     <<"f", "r", "e", "s", "h", "e", "r">>,
     <<"j", "u", "n", "i", "o", "r">>,
     <<"0", "-", "1">>,
     <<"0", "-", "2">>,
     <<"g", "r", "a", "d", "u", "a", "t", "e">>,
     <<"b", "e", "g", "i", "n", "n", "e", "r">>,
     <<"t", "r", "a", "i", "n", "e", "e">>,
     <<"a", "s", "s", "o", "c", "i", "a", "t", "e">>,
     <<"c", "o", "o", "r", "d", "i", "n", "a", "t", "o", "r">>,
     <<"e", "x", "e", "c", "u", "t", "i", "v", "e">>}

senior_keywords ==
    {<<"s", "e", "n", "i", "o", "r">>,
     <<"l", "e", "a", "d">>,
     <<"m", "a", "n", "a", "g", "e", "r">>,
     <<"h", "e", "a", "d">>,
     <<"d", "i", "r", "e", "c", "t", "o", "r">>,
     <<"p", "r", "i", "n", "c", "i", "p", "a", "l">>,
     <<"e", "x", "p", "e", "r", "t">>,
     <<"s", "p", "e", "c", "i", "a", "l", "i", "s", "t">>,
     <<"5", "+">>,
     <<"7", "+">>,
     <<"1", "0", "+">>,
     <<"y", "e", "a", "r", "s">>}

\* re.search(r'0\s*-\s*[123]', experience)
zero_to_three(experience) ==
    \E i \in 1..Len(experience) :
        /\ experience[i] = "0"
        /\ LET j == after_spaces(experience, i + 1)
               k == after_spaces(experience, j + 1)
           IN /\ j <= Len(experience) /\ experience[j] = "-"
              /\ k <= Len(experience) /\ experience[k] \in {"1", "2", "3"}

\* one pass of the loop of filter_entry_level: the record is appended or not
is_entry_level(job) ==
    LET title == lower(get(job, "title", <<>>))
        experience == lower(get(job, "experience", <<>>))
    IN IF any_in(senior_keywords, title) THEN FALSE
       ELSE IF any_in(entry_keywords, experience) \/ any_in(entry_keywords, title)
       THEN TRUE
       ELSE IF zero_to_three(experience) THEN TRUE
       ELSE \/ contains(<<"c", "h", "e", "c", "k">>, experience)
            \/ contains(<<"n", "o", "t", " ", "s", "p", "e", "c", "i", "f", "i", "e", "d">>, experience)

RECURSIVE filter_entry_level(_)
filter_entry_level(jobs) ==
    IF jobs = <<>> THEN <<>>
    ELSE (IF is_entry_level(Head(jobs)) THEN <<Head(jobs)>> ELSE <<>>)
             \o filter_entry_level(Tail(jobs))

\* JobSearcher._extract_salary_lpa, in whole LPA
extract_salary_lpa(salary_text) ==
    LET text == lower(salary_text)
        lpa_match == amount_search({<<"l", "p", "a">>}, text)
        lakh_match == amount_search({<<"l", "a", "k", "h">>, <<"l", "a", "c">>, <<"l">>}, text)
    IN IF lpa_match # None THEN lpa_match[2]
       ELSE IF lakh_match # None THEN lakh_match[2]
       ELSE 0

\* one pass of the loop of filter_by_salary
meets_salary(job, min_salary_lpa) ==
    LET salary_text == lower(get(job, "salary", <<>>))
    IN \/ contains(<<"n", "o", "t", " ", "d", "i", "s", "c", "l", "o", "s", "e", "d">>, salary_text)
       \/ contains(<<"c", "h", "e", "c", "k">>, salary_text)
       \/ extract_salary_lpa(salary_text) >= min_salary_lpa

RECURSIVE filter_by_salary(_, _)
filter_by_salary(jobs, min_salary_lpa) ==
    IF jobs = <<>> THEN <<>>
    ELSE (IF meets_salary(Head(jobs), min_salary_lpa) THEN <<Head(jobs)>> ELSE <<>>)
             \o filter_by_salary(Tail(jobs), min_salary_lpa)

\* a record as the scrapers of JobSearcher build it (scraped_date is read
\* by none of the steps that follow)
Scraped(title, location, salary, experience, source) ==
    [title |-> title, company |-> <<"b">>, location |-> location,
     salary |-> salary, experience |-> experience, url |-> <<"1">>,
     source |-> source]

\* what the scrapers return: search_indeed reads the salary text and sets
\* 'Entry level', search_times_jobs reads the experience text and sets 'Not
\* disclosed', search_shine sets both.  Three records pass the three
\* filters; one fails on each of location, senior title, salary, experience
ScrapedJobs ==
    {Scraped(<<"o", "p", "s">>,
             <<"N", "e", "w", " ", "D", "e", "l", "h", "i">>,
             <<"N", "o", "t", " ", "d", "i", "s", "c", "l", "o", "s", "e", "d">>,
             <<"E", "n", "t", "r", "y", " ", "l", "e", "v", "e", "l">>, "Shine"),
     Scraped(<<"h", "r">>,
             <<"N", "e", "w", " ", "D", "e", "l", "h", "i">>,
             <<"1", "2", " ", "l", "p", "a">>,
             <<"E", "n", "t", "r", "y", " ", "l", "e", "v", "e", "l">>, "Indeed"),
     Scraped(<<"h", "r">>,
             <<"N", "e", "w", " ", "D", "e", "l", "h", "i">>,
             <<"N", "o", "t", " ", "d", "i", "s", "c", "l", "o", "s", "e", "d">>,
             <<"0", " ", "-", " ", "2">>, "TimesJobs"),
     Scraped(<<"o", "p", "s">>,
             <<"P", "u", "n", "e">>,
             <<"1", "2", " ", "l", "p", "a">>,
             <<"E", "n", "t", "r", "y", " ", "l", "e", "v", "e", "l">>, "Indeed"),
     Scraped(<<"l", "e", "a", "d">>,
             <<"N", "e", "w", " ", "D", "e", "l", "h", "i">>,
             <<"N", "o", "t", " ", "d", "i", "s", "c", "l", "o", "s", "e", "d">>,
             <<"E", "n", "t", "r", "y", " ", "l", "e", "v", "e", "l">>, "Shine"),
     Scraped(<<"p", "r">>,
             <<"N", "e", "w", " ", "D", "e", "l", "h", "i">>,
             <<"5", " ", "l", "p", "a">>,
             <<"E", "n", "t", "r", "y", " ", "l", "e", "v", "e", "l">>, "Indeed"),
     Scraped(<<"p", "r", "o">>,
             <<"N", "e", "w", " ", "D", "e", "l", "h", "i">>,
             <<"N", "o", "t", " ", "d", "i", "s", "c", "l", "o", "s", "e", "d">>,
             <<"5", " ", "y", "r", "s">>, "TimesJobs")}

ScrapedLists == SeqsUpTo(ScrapedJobs, MaxJobs + 1)

\* all_jobs = searcher.search_all_platforms(JOB_TITLES, LOCATION), once after
\* the start of the process; call.jobs holds what the scrapers returned
PipeSearch ==
    /\ pc = "idle"
    /\ last_op = "load_history"
    /\ \E all_jobs \in ScrapedLists :
          /\ call' = [NoCall EXCEPT !.jobs = all_jobs]
          /\ ret' = PyList(deduplicate_jobs(all_jobs))
    /\ pc' = "location"
    /\ last_op' = "search_all_platforms"
    /\ UNCHANGED <<now, history, file, caller, cfg, obs, sweep, parked, results>>

PipeLocation ==
    /\ pc = "location"
    /\ ret' = PyList(filter_by_location(ret[2], PREFERRED_LOCATIONS))
    /\ pc' = "entry"
    /\ last_op' = "filter_by_location"
    /\ UNCHANGED <<now, history, file, caller, call, cfg, obs, sweep, parked,
                   results>>

PipeEntry ==
    /\ pc = "entry"
    /\ ret' = PyList(filter_entry_level(ret[2]))
    /\ pc' = "salary"
    /\ last_op' = "filter_entry_level"
    /\ UNCHANGED <<now, history, file, caller, call, cfg, obs, sweep, parked,
                   results>>

PipeSalary ==
    /\ pc = "salary"
    /\ ret' = PyList(filter_by_salary(ret[2], MIN_SALARY_LPA))
    /\ pc' = "select"
    /\ last_op' = "filter_by_salary"
    /\ UNCHANGED <<now, history, file, caller, call, cfg, obs, sweep, parked,
                   results>>

\* filtered_jobs = tracker.filter_new_jobs(salary_jobs, days_threshold=3)
PipeSelect ==
    /\ pc = "select"
    /\ FilterBegin(ret[2], CycleDaysThreshold)
    /\ UNCHANGED <<caller, results>>

NextPipeline ==
    \/ StoreTick
    \/ PipeSearch
    \/ PipeLocation
    \/ PipeEntry
    \/ PipeSalary
    \/ PipeSelect
    \/ FilterStep
    \/ FilterReturn
    \/ CycleRecord
    \/ CycleSave
    \/ CycleCleanup
    \/ CycleNoCleanup

SpecPipeline == InitDeliver /\ [][NextPipeline]_vars

(***************************************************************************)
(* generate_job_hash on pairs of records drawn from every combination of   *)
(* field texts, with and without a location key                            *)
(***************************************************************************)
NameTexts == {<<"A">>, <<"a">>, <<" ", "a">>, <<"b">>, <<"B", " ">>}

LocationTexts == {<<>>, <<"D">>, <<"d", " ">>}

UrlTexts == {<<"1">>, <<"2">>}

HashJobs ==
    [title : NameTexts, company : NameTexts, location : LocationTexts,
     url : UrlTexts, source : {"Indeed"}]
      \cup [title : NameTexts, company : NameTexts, url : UrlTexts,
            source : {"Naukri"}]

HashFilter ==
    /\ pc = "idle"
    /\ last_op = "init"
    /\ \E job1 \in HashJobs, job2 \in HashJobs :
          FilterBegin(<<job1, job2>>, CycleDaysThreshold)
    /\ caller' = "api"

NextHash ==
    \/ HashFilter
    \/ FilterStep
    \/ FilterReturn

SpecHash == Init /\ [][NextHash]_vars

(***************************************************************************)
(* generate_job_hash on pairs of records whose titles and companies may    *)
(* hold the '-' that job_string puts between the fields                    *)
(***************************************************************************)
HyphenTitles == {<<"a">>, <<"a", "-", "b">>, <<"B", " ">>}

HyphenCompanies == {<<"d">>, <<"b", "-", "d">>}

HyphenJobs ==
    [title : HyphenTitles, company : HyphenCompanies, location : {<<>>, <<"D">>},
     url : {<<"1">>}, source : {"Indeed"}]

HyphenFilter ==
    /\ pc = "idle"
    /\ last_op = "init"
    /\ \E job1 \in HyphenJobs, job2 \in HyphenJobs :
          FilterBegin(<<job1, job2>>, CycleDaysThreshold)
    /\ caller' = "api"

NextHyphen ==
    \/ HyphenFilter
    \/ FilterStep
    \/ FilterReturn

SpecHyphen == Init /\ [][NextHyphen]_vars

(***************************************************************************)
(* Properties                                                              *)
(***************************************************************************)
\* the loop of filter_new_jobs is about to process a record
AtRecord == pc = "loop" /\ call.idx <= Len(call.jobs)

\* this step is the loop's pass over the record it has reached
StepsRecord == AtRecord /\ call'.idx = call.idx + 1

\* the calendar day written in the timestamp stored for a job hash
StoredDay(seen_jobs, job_hash) == seen_jobs[job_hash][1]

\* today - retentionDays of the running call
WindowStart == call.current_date - call.days_threshold

HashA == generate_job_hash(JobA)
HashB == generate_job_hash(JobB)

\* this step of the loop emits the record it has reached
EmitsRecord == AtRecord /\ Len(call'.new_jobs) > Len(call.new_jobs)

\* the record reached was emitted before by a cycle that ran fewer than the
\* retention window's days before the running cycle
EmittedWithinWindow ==
    /\ CurHash \in DOMAIN obs.emitted_on
    /\ call.current_date - obs.emitted_on[CurHash] < cfg.days_threshold

\* C1 (as stated): with a retention window r >= 1, no cycle emits a job that
\* a cycle fewer than r calendar days before it has emitted, whatever
\* restarts and sweeps lie between the two.
C1_NoReemissionAnyWindow ==
    [][(EmitsRecord /\ cfg.days_threshold >= 1) => ~EmittedWithinWindow]_vars

\* C1 (amended): the same for a retention window of 1 to 30 days, the age
\* at which cleanup_old_history(30) starts to delete entries.
C1_NoReemission ==
    [][(EmitsRecord /\ cfg.days_threshold >= 1
            /\ cfg.days_threshold <= DefaultDaysToKeep)
        => ~EmittedWithinWindow]_vars

\* C1 witness: a cycle on a later day, after a restart, has skipped a job
\* emitted inside its window.
C1_Witness ==
    /\ pc = "record"
    /\ cfg.days_threshold = CycleDaysThreshold
    /\ call.jobs = <<JobA2>>
    /\ call.new_jobs = <<>>
    /\ generate_job_hash(JobA2) \in DOMAIN obs.emitted_on
    /\ call.current_date > obs.emitted_on[generate_job_hash(JobA2)]
    /\ file.exists
    /\ history = json_load(file.doc)

\* C2: a record whose fingerprint is absent from seen_jobs when the loop
\* reaches it is appended to the result, and its fingerprint is stored with
\* the current timestamp.
C2_AbsentIsEmitted ==
    [][(StepsRecord /\ CurHash \notin DOMAIN history.seen_jobs)
        => /\ call'.new_jobs = Append(call.new_jobs, CurJob)
           /\ CurHash \in DOMAIN history'.seen_jobs
           /\ history'.seen_jobs[CurHash] = <<now \div TicksPerDay, now % TicksPerDay>>
      ]_vars

\* C2 witness: on day 0, under a 3-day window, the first record of the list
\* was emitted into a store that holds nothing else, half a day into day 0.
C2_Witness ==
    /\ pc = "loop"
    /\ call.days_threshold = CycleDaysThreshold
    /\ call.idx = 2
    /\ call.first_seen = Unset
    /\ call.new_jobs = <<JobB>>
    /\ now = 1
    /\ history.seen_jobs = (HashB :> <<0, 1>>)

\* C3: a record whose fingerprint is stored with a date strictly later than
\* today - retentionDays is not emitted, and the stored timestamp (with the
\* rest of the store) is left as it was.
C3_WithinWindowSuppressed ==
    [][(StepsRecord /\ CurHash \in DOMAIN history.seen_jobs
            /\ StoredDay(history.seen_jobs, CurHash) > WindowStart)
        => /\ call'.new_jobs = call.new_jobs
           /\ history'.seen_jobs[CurHash] = history.seen_jobs[CurHash]
           /\ history' = history
      ]_vars

\* C3 witness: on day 1 a record stored on day 0 was skipped under a 3-day
\* window, its timestamp still the one of day 0.
C3_Witness ==
    /\ pc = "loop"
    /\ call.days_threshold = CycleDaysThreshold
    /\ call.jobs = <<JobA2>>
    /\ call.idx = 2
    /\ call.first_seen = 0
    /\ call.current_date = 1
    /\ call.new_jobs = <<>>
    /\ history.seen_jobs[HashA] = <<0, 1>>

\* C4: a record whose fingerprint is stored with a date on or before
\* today - retentionDays (exactly retentionDays days ago included) is
\* emitted again and its stored timestamp becomes the current time.
C4_AgedOutReemitted ==
    [][(StepsRecord /\ CurHash \in DOMAIN history.seen_jobs
            /\ StoredDay(history.seen_jobs, CurHash) <= WindowStart)
        => /\ call'.new_jobs = Append(call.new_jobs, CurJob)
           /\ history'.seen_jobs[CurHash] = <<now \div TicksPerDay, now % TicksPerDay>>
      ]_vars

\* C4 witness: the boundary, a record stored exactly retentionDays = 1 day
\* before the call was emitted again and restamped.
C4_Witness ==
    /\ pc = "loop"
    /\ call.days_threshold = 1
    /\ call.jobs = <<JobA>>
    /\ call.idx = 2
    /\ call.first_seen = 0
    /\ call.current_date = 1
    /\ call.new_jobs = <<JobA>>
    /\ history.seen_jobs[HashA] = <<1, 0>>

\* C5: a call that repeats the call before it (same list, same
\* retentionDays >= 1, same calendar day, nothing run in between) emits
\* nothing and leaves seen_jobs unchanged.
C5_RerunEmitsNothing ==
    [][(obs.rerun /\ call.days_threshold >= 1 /\ pc = "loop")
        => /\ call'.new_jobs = <<>>
           /\ history'.seen_jobs = history.seen_jobs
      ]_vars

\* C5 witness: the repeated call has returned the empty list after the first
\* call had emitted both records of the list.
C5_Witness ==
    /\ pc = "idle"
    /\ last_op = "filter_new_jobs"
    /\ obs.rerun
    /\ call.days_threshold = 1
    /\ call.jobs = <<JobA, JobB>>
    /\ call.idx = 3
    /\ call.new_jobs = <<>>
    /\ history.seen_jobs = (HashA :> <<0, 0>>) @@ (HashB :> <<0, 1>>)

\* a text with its leading and trailing blanks cut off and its capitals
\* replaced by small letters
Trimmed(s) ==
    LET inked == {i \in 1..Len(s) : s[i] # " "}
    IN IF inked = {} THEN <<>>
       ELSE LET first == CHOOSE i \in inked : \A j \in inked : i <= j
                last == CHOOSE i \in inked : \A j \in inked : j <= i
            IN [k \in 1..(last - first + 1) |-> s[first + k - 1]]

Folded(s) ==
    [i \in 1..Len(s) |->
        IF s[i] = "A" THEN "a" ELSE IF s[i] = "B" THEN "b"
        ELSE IF s[i] = "D" THEN "d" ELSE s[i]]

LocationOf(job) == IF "location" \in DOMAIN job THEN job.location ELSE <<>>

SameIdentity(job1, job2) ==
    /\ Trimmed(Folded(job1.title)) = Trimmed(Folded(job2.title))
    /\ Trimmed(Folded(job1.company)) = Trimmed(Folded(job2.company))
    /\ Trimmed(Folded(LocationOf(job1))) = Trimmed(Folded(LocationOf(job2)))

\* C6: two records whose title, company and location are equal after
\* lower-casing and trimming have the same job hash, whatever their url and
\* source, and whether or not the location key is there.
C6_HashDeterminism ==
    \A i, j \in 1..Len(call.jobs) :
        SameIdentity(call.jobs[i], call.jobs[j])
            => generate_job_hash(call.jobs[i]) = generate_job_hash(call.jobs[j])

\* C6 witness: two records of one identity that differ in case, blanks, url,
\* source and the presence of the location key went through the filter, and
\* the second was skipped on the hash stored for the first.
C6_Witness ==
    /\ pc = "idle"
    /\ last_op = "filter_new_jobs"
    /\ call.jobs = <<[title |-> <<" ", "a">>, company |-> <<"B", " ">>,
                      location |-> <<>>, url |-> <<"1">>, source |-> "Indeed"],
                     [title |-> <<"A">>, company |-> <<"b">>,
                      url |-> <<"2">>, source |-> "Naukri"]>>
    /\ Len(call.new_jobs) = 1
    /\ DOMAIN history.seen_jobs = {generate_job_hash(call.jobs[2])}

RECURSIVE IsSubsequence(_, _)
IsSubsequence(s, t) ==
    IF s = <<>> THEN TRUE
    ELSE IF t = <<>> THEN FALSE
    ELSE IF Head(s) = Head(t) THEN IsSubsequence(Tail(s), Tail(t))
    ELSE IsSubsequence(s, Tail(t))

\* C7: the records emitted so far are a subsequence of the records processed
\* so far, in input order; as long as no record has been skipped they are the
\* processed records themselves.
C7_OrderPreserved ==
    LET processed == SubSeq(call.jobs, 1, call.idx - 1)
    IN /\ IsSubsequence(call.new_jobs, processed)
       /\ obs.all_new => call.new_jobs = processed

\* C7 witness: a call has returned its two new records in input order.
C7_Witness ==
    /\ pc = "idle"
    /\ last_op = "filter_new_jobs"
    /\ obs.all_new
    /\ call.jobs = <<JobB, JobA2>>
    /\ call.idx = 3
    /\ call.new_jobs = <<JobB, JobA2>>

\* C8 (as stated): whenever the loop reaches a record whose fingerprint is
\* already in seen_jobs, the timestamp stored for it afterwards is one of the
\* running call, so it carries the call's date or a later one.
C8_AlwaysOverwritten ==
    [][(StepsRecord /\ CurHash \in DOMAIN history.seen_jobs)
        => StoredDay(history'.seen_jobs, CurHash) >= call.current_date]_vars

\* C8 (amended): the timestamp of a fingerprint that reappears is overwritten
\* with the current time when its stored date is on or before
\* today - retentionDays, and is kept as it was when the stored date is later.
C8_OverwrittenWhenAgedOut ==
    [][(StepsRecord /\ CurHash \in DOMAIN history.seen_jobs)
        => history'.seen_jobs[CurHash] =
              IF StoredDay(history.seen_jobs, CurHash) <= WindowStart
              THEN <<now \div TicksPerDay, now % TicksPerDay>>
              ELSE history.seen_jobs[CurHash]
      ]_vars

\* C8 witness: one call on day 30 with a 3-day window met JobA, stored
\* earlier that day and kept, and JobB, stored on day 0 and restamped.
C8_Witness ==
    /\ pc = "loop"
    /\ call.days_threshold = CycleDaysThreshold
    /\ call.jobs = <<JobA, JobB>>
    /\ call.idx = 3
    /\ call.first_seen = 0
    /\ call.current_date = DefaultDaysToKeep
    /\ call.new_jobs = <<JobB>>
    /\ now = timedelta(DefaultDaysToKeep) + 1
    /\ history.last_cleanup = <<0, 0>>
    /\ history.seen_jobs =
          (HashA :> <<DefaultDaysToKeep, 0>>) @@ (HashB :> <<DefaultDaysToKeep, 1>>)

FileHashes == IF file.exists THEN {m[1] : m \in file.doc.seen_jobs} ELSE {}

\* C9 (as stated): no call other than cleanup_old_history removes a
\* fingerprint from seen_jobs.
C9_OnlyCleanupRemoves ==
    [][last_op' # "cleanup_old_history"
        => DOMAIN history.seen_jobs \subseteq DOMAIN history'.seen_jobs]_vars

\* C9 (amended): filter_new_jobs, record_daily_count and save_history never
\* remove a fingerprint from seen_jobs; load_history replaces seen_jobs by the
\* fingerprints of the file, so it drops those inserted since the last save;
\* only cleanup_old_history and load_history remove fingerprints.
C9_SelectorNeverDeletes ==
    [][/\ last_op' \notin {"cleanup_old_history", "load_history"}
            => DOMAIN history.seen_jobs \subseteq DOMAIN history'.seen_jobs
       /\ last_op' = "load_history"
            => DOMAIN history'.seen_jobs = FileHashes
      ]_vars

\* C9 witness: after calls of all kinds, a sweep included, the store reloaded
\* from the file holds both fingerprints.
C9_Witness ==
    /\ last_op = "load_history"
    /\ file.exists
    /\ DOMAIN history.seen_jobs = {HashA, HashB}
    /\ DOMAIN history.daily_counts # {}
    /\ history.last_cleanup # <<0, 0>>

LoadStep == last_op # "load_history" /\ last_op' = "load_history"

\* the file is absent or does not hold JSON text
FileUnusable == ~file.exists \/ "raw" \in DOMAIN file.doc

\* C11: load_history never raises, and when the file is absent or holds no
\* JSON the tracker ends with seen_jobs = {}, daily_counts = {} and
\* last_cleanup = now; a file that cannot be opened gives the same store or,
\* in the model, is told apart from a readable one only by that outcome.
C11_LoadFallsBackToEmpty ==
    [][LoadStep
        => /\ pc' = "idle"
           /\ ret' = <<"None">>
           /\ FileUnusable
                => history' = [seen_jobs |-> EmptyMap, daily_counts |-> EmptyMap,
                               last_cleanup |-> <<now \div TicksPerDay,
                                                  now % TicksPerDay>>]
           /\ \/ history' = [seen_jobs |-> EmptyMap, daily_counts |-> EmptyMap,
                             last_cleanup |-> <<now \div TicksPerDay,
                                                now % TicksPerDay>>]
              \/ ~FileUnusable
      ]_vars

\* C11 witness: half a day into day 0 the tracker was rebuilt on a file that
\* holds no JSON, and the cycle after it has emitted both of its records,
\* both new to it.
C11_Witness ==
    /\ pc = "record"
    /\ file = [exists |-> TRUE, doc |-> [raw |-> <<>>]]
    /\ history.last_cleanup = <<0, 1>>
    /\ call.jobs = <<JobA, JobB>>
    /\ call.new_jobs = <<JobA, JobB>>
    /\ history.seen_jobs = (HashA :> <<0, 1>>) @@ (HashB :> <<0, 1>>)
    /\ history.daily_counts = EmptyMap

\* C12 (as stated): whatever the history file holds, no operation of the
\* sequence load_history, filter_new_jobs, record_daily_count,
\* cleanup_old_history, save_history raises.
C12_NoOperationRaises == pc # "raised"

\* this step is a run of save_history inside a cycle
SaveStep == pc = "save" /\ pc' = "cleanup"

\* C13: save_history does not raise, whether or not the file could be
\* written, and leaves seen_jobs, daily_counts and last_cleanup as they were;
\* the cycle goes on with the jobs it selected.
C13_FailedSaveKeepsMemory ==
    [][SaveStep
        => /\ ret' = <<"None">>
           /\ history' = history
           /\ call'.new_jobs = call.new_jobs
      ]_vars

\* C13 witness: the save of a cycle that selected two jobs has failed and
\* left an empty file; the store in memory holds both fingerprints.
C13_Witness ==
    /\ pc = "cleanup"
    /\ last_op = "save_history"
    /\ file = [exists |-> TRUE, doc |-> [raw |-> <<>>]]
    /\ call.new_jobs = <<JobB, JobA>>
    /\ DOMAIN history.seen_jobs = {HashA, HashB}
    /\ history.daily_counts = (<<0>> :> 2)

\* C14 (as stated): when a search cycle finishes, the persisted file equals
\* the in-memory store.
C14_FileEqualsStoreAtCycleEnd ==
    [][(pc = "cleanup" /\ pc' = "idle")
        => /\ file'.exists
           /\ json_load(file'.doc) = history'
      ]_vars

\* C15 (as stated): at most one execution of perform_job_search is in
\* progress at any time.
C15_AtMostOneActiveCycle == ~(pc # "idle" /\ parked.pc # "idle")

\* this step is the body of cleanup_old_history(sweep.days_to_keep)
SweepStep == pc = "sweep" /\ pc' = "idle"

\* the point in time a stored timestamp or a stored date (its midnight) names
PointOf(date_str) ==
    IF Len(date_str) = 2 THEN date_str[1] * TicksPerDay + date_str[2]
    ELSE date_str[1] * TicksPerDay

\* now - maxAgeDays
Horizon == now - sweep.days_to_keep * TicksPerDay

\* C16: after cleanup_old_history(maxAgeDays) seen_jobs holds exactly the
\* entries whose timestamp is not older than now - maxAgeDays and
\* daily_counts exactly the dates (taken at midnight) not older than that.
C16_SweepRemovesExactlyTheOld ==
    [][SweepStep
        => /\ DOMAIN history'.seen_jobs =
                {job_hash \in DOMAIN history.seen_jobs :
                    PointOf(history.seen_jobs[job_hash]) >= Horizon}
           /\ DOMAIN history'.daily_counts =
                {date_str \in DOMAIN history.daily_counts :
                    PointOf(date_str) >= Horizon}
      ]_vars

\* C16 witness: half a day into day 30 a sweep with maxAgeDays = 30 removed
\* the entry and the count of day 0 and kept the entry stamped exactly
\* 30 days before and the count of day 1.
C16_Witness ==
    /\ pc = "idle"
    /\ last_op = "cleanup_old_history"
    /\ now = DefaultDaysToKeep * TicksPerDay + 1
    /\ sweep = [days_to_keep |-> DefaultDaysToKeep, jobs_to_remove |-> {HashA},
                dates_to_remove |-> {<<0>>}]
    /\ history.seen_jobs = (HashB :> <<0, 1>>)
    /\ DOMAIN history.daily_counts = {<<1>>}

\* C17 (as stated): cleanup_old_history returns the number of seen_jobs
\* entries it removed.
C17_ReturnsRemovedCount ==
    [][SweepStep
        => ret' = <<"int", Cardinality(DOMAIN history.seen_jobs
                                          \ DOMAIN history'.seen_jobs)>>
      ]_vars

\* C18: cleanup_old_history sets last_cleanup to the current time, and every
\* entry of seen_jobs and of daily_counts it retains keeps its value.
C18_SweepKeepsSurvivors ==
    [][SweepStep
        => /\ history'.last_cleanup = <<now \div TicksPerDay, now % TicksPerDay>>
           /\ DOMAIN history' = DOMAIN history
           /\ \A job_hash \in DOMAIN history'.seen_jobs :
                 /\ job_hash \in DOMAIN history.seen_jobs
                 /\ history'.seen_jobs[job_hash] = history.seen_jobs[job_hash]
           /\ \A date_str \in DOMAIN history'.daily_counts :
                 /\ date_str \in DOMAIN history.daily_counts
                 /\ history'.daily_counts[date_str] = history.daily_counts[date_str]
      ]_vars

\* C18 witness: half a day into day 1 a sweep with maxAgeDays = 1 removed
\* JobA's entry of day 0; JobB's entry of day 1 and the count of day 1 are
\* as they were, last_cleanup is the time of the sweep.
C18_Witness ==
    /\ pc = "idle"
    /\ last_op = "cleanup_old_history"
    /\ now = TicksPerDay + 1
    /\ sweep.days_to_keep = 1
    /\ sweep.jobs_to_remove = {HashA}
    /\ history.seen_jobs = (HashB :> <<1, 0>>)
    /\ history.daily_counts = (<<1>> :> MaxJobs)
    /\ history.last_cleanup = <<1, 1>>

\* C19: when cleanup_old_history(maxAgeDays) is about to run, every record
\* list and every retentionDays <= maxAgeDays give the same result of
\* filter_new_jobs on the store as it is and on the store as the sweep
\* leaves it.
C19_SweepIndependentOfSelector ==
    pc = "sweep"
        => \A jobs \in StoreLists \cup {<<JobA, JobA2>>},
              days_threshold \in Retentions \cup KeepAges :
              days_threshold <= sweep.days_to_keep
                => filter_new_jobs(history.seen_jobs, jobs, days_threshold, now)
                     = filter_new_jobs(swept_jobs(history.seen_jobs,
                                                  sweep.days_to_keep, now),
                                       jobs, days_threshold, now)

\* C19 witness: on day 30 the sweep with maxAgeDays = 30 deleted JobA's entry
\* of day 0, and the filter_new_jobs call after it, with a 3-day window,
\* emitted JobA.
C19_Witness ==
    /\ pc = "idle"
    /\ last_op = "filter_new_jobs"
    /\ sweep.days_to_keep = DefaultDaysToKeep
    /\ sweep.jobs_to_remove = {HashA}
    /\ history.last_cleanup[1] = DefaultDaysToKeep
    /\ call.jobs = <<JobA>>
    /\ call.current_date = DefaultDaysToKeep
    /\ ret = <<"list", <<JobA>>>>

\* the case-folded, trimmed (title, company) of a record
FoldedKey(job) == <<Trimmed(Folded(job.title)), Trimmed(Folded(job.company))>>

\* the first record of a list that has the key of the given record
FirstWithKey(jobs, job) ==
    jobs[CHOOSE i \in 1..Len(jobs) :
            /\ FoldedKey(jobs[i]) = FoldedKey(job)
            /\ \A j \in 1..Len(jobs) : FoldedKey(jobs[j]) = FoldedKey(job) => i <= j]

\* C20: the output of either dedup step is a subsequence of its input, no
\* two of its records have the same case-folded, trimmed (title, company),
\* and each of them is the first input record with its key, all fields as
\* they were.
C20_FirstOccurrenceWins ==
    last_op \in {"_deduplicate_jobs", "search_operations_jobs"}
        => LET unique_jobs == ret[2]
           IN /\ IsSubsequence(unique_jobs, call.jobs)
              /\ \A i, j \in 1..Len(unique_jobs) :
                    FoldedKey(unique_jobs[i]) = FoldedKey(unique_jobs[j]) => i = j
              /\ \A i \in 1..Len(unique_jobs) :
                    unique_jobs[i] = FirstWithKey(call.jobs, unique_jobs[i])

\* C20 witness: of two records of one posting that differ in case, blanks and
\* url, _deduplicate_jobs kept the first as it was.
C20_Witness ==
    /\ last_op = "_deduplicate_jobs"
    /\ call.jobs =
          <<[title |-> <<"a", " ", "b">>, company |-> <<"d">>,
             location |-> <<"D">>, url |-> <<"1">>, source |-> "Indeed"],
            [title |-> <<"A", " ", "b", " ">>, company |-> <<"D", " ">>,
             location |-> <<"D">>, url |-> <<"2">>, source |-> "Indeed"]>>
    /\ ret = <<"list", <<call.jobs[1]>>>>

\* C21: either dedup step discards a record only if an earlier input record
\* has exactly the same case-folded, trimmed title and company: a record that
\* is the first of the input with its (title, company) is in the output.
C21_DiscardOnlyOnExactMatch ==
    last_op \in {"_deduplicate_jobs", "search_operations_jobs"}
        => \A i \in 1..Len(call.jobs) :
              (\A j \in 1..(i - 1) : FoldedKey(call.jobs[j]) # FoldedKey(call.jobs[i]))
                  => \E k \in 1..Len(ret[2]) : ret[2][k] = call.jobs[i]

\* C22: every record that reaches filter_new_jobs from search_operations_jobs
\* has a title and a company that are non-empty after trimming.
C22_SelectorInputHasTitleAndCompany ==
    (pc = "loop" /\ caller = "github_action_search_v2")
        => \A i \in 1..Len(call.jobs) :
              /\ strip(call.jobs[i].title) # <<>>
              /\ strip(call.jobs[i].company) # <<>>

\* the postings whose last emission by a search cycle was on calendar day d
EmittedOn(d) == {h \in DOMAIN obs.emitted_on : obs.emitted_on[h] = d}

\* a search cycle records its count
RecordStep == pc = "record" /\ pc' = "save"

\* C23: daily_counts[d] is the number of records the cycles run on date d
\* emitted as new: when a cycle records its count, the entry of today is not
\* less than the number of postings emitted today.
C23_DailyCountIsDayTotal ==
    [][RecordStep
         => history'.daily_counts[date_isoformat(date(now))]
                >= Cardinality(EmittedOn(date(now)))]_vars

\* C25: a job is marked as seen only if it is delivered: between cycles,
\* every fingerprint of the persisted history belongs to a job that a cycle
\* wrote to its results file.
C25_SeenOnlyIfDelivered ==
    pc = "idle"
        => \A m \in file.doc.seen_jobs :
              \E f \in DOMAIN results :
                 /\ f[1] = "jobs"
                 /\ \E i \in 1..Len(results[f]) :
                       generate_job_hash(results[f][i]) = m[1]

EmittedOnce ==
    \A i, j \in 1..Len(call.new_jobs) :
        generate_job_hash(call.new_jobs[i]) = generate_job_hash(call.new_jobs[j])
            => i = j

\* C27 (as stated): in a call with days_threshold >= 1 no two emitted records
\* have the same fingerprint; with days_threshold = 0 nothing is ever
\* suppressed.
C27_NothingSuppressedWithoutWindow ==
    /\ call.days_threshold >= 1 => EmittedOnce
    /\ call.days_threshold = 0 => obs.all_new

\* C27 (amended): in a call with days_threshold >= 1 no two emitted records
\* have the same fingerprint, whatever the store; with days_threshold = 0 a
\* record is suppressed only after the clock has passed midnight since the
\* call began.
C27_NoDuplicateEmission ==
    /\ call.days_threshold >= 1 => EmittedOnce
    /\ (call.days_threshold = 0 /\ ~obs.all_new) => date(now) > call.current_date

\* C27 witness: a call with a window of one day on a store that holds the
\* posting from 30 days before was given the posting twice and returned the
\* first of the two records only.
C27_Witness ==
    /\ pc = "idle"
    /\ last_op = "filter_new_jobs"
    /\ call.days_threshold = 1
    /\ call.current_date = DefaultDaysToKeep
    /\ call.first_seen = DefaultDaysToKeep
    /\ call.jobs = <<JobA, JobA2>>
    /\ ret = <<"list", <<JobA>>>>

\* with days_threshold = 0 the two records of one posting are both emitted
C27_BothEmittedWithoutWindow ==
    /\ call.days_threshold = 0
    /\ call.jobs = <<JobA, JobA2>>
    /\ ret = <<"list", <<JobA, JobA2>>>>

\* C28: when two executions of perform_job_search interleave and both are
\* given a record with the same fingerprint, absent from seen_jobs, at most
\* one of them emits it: the lists of the two executions have no fingerprint
\* in common.
C28_AtMostOneExecutionEmits ==
    \A i \in 1..Len(call.new_jobs), j \in 1..Len(parked.call.new_jobs) :
        generate_job_hash(call.new_jobs[i])
            # generate_job_hash(parked.call.new_jobs[j])

\* C24: the chain filter_by_location, filter_entry_level, filter_by_salary
\* of perform_job_search returns exactly the records of its input that
\* satisfy the three predicates, each as it was given and in the order of
\* the input, and the three stages applied in any other order return the
\* same list.
InPreferredLocation(job) ==
    \E i \in 1..Len(PREFERRED_LOCATIONS) :
        contains(strip(lower(PREFERRED_LOCATIONS[i])),
                 lower(get(job, "location", <<>>)))

SatisfiesAll(job) ==
    /\ InPreferredLocation(job)
    /\ is_entry_level(job)
    /\ meets_salary(job, MIN_SALARY_LPA)

ByLocation(jobs) == filter_by_location(jobs, PREFERRED_LOCATIONS)

BySalary(jobs) == filter_by_salary(jobs, MIN_SALARY_LPA)

ChainInput == deduplicate_jobs(call.jobs)

C24_ChainIsConjunctionInAnyOrder ==
    pc = "select" =>
        LET expected == SelectSeq(ChainInput, SatisfiesAll)
        IN /\ ret = PyList(expected)
           /\ BySalary(filter_entry_level(ByLocation(ChainInput))) = expected
           /\ filter_entry_level(BySalary(ByLocation(ChainInput))) = expected
           /\ BySalary(ByLocation(filter_entry_level(ChainInput))) = expected
           /\ ByLocation(BySalary(filter_entry_level(ChainInput))) = expected
           /\ filter_entry_level(ByLocation(BySalary(ChainInput))) = expected
           /\ ByLocation(filter_entry_level(BySalary(ChainInput))) = expected

\* the chain has dropped the first record of its input and kept two others
C24_Witness ==
    /\ pc = "select"
    /\ Len(ChainInput) = 3
    /\ Len(ret[2]) = 2
    /\ ~ SatisfiesAll(ChainInput[1])
    /\ ret[2] = Tail(ChainInput)

\* C29: every scraped record in a preferred location that satisfies the
\* seniority and salary predicates reaches filter_new_jobs, or a record
\* scraped before it with the same fingerprint does.
C29_PreferredRecordReachesSelector ==
    pc = "select" =>
        \A i \in 1..Len(call.jobs) :
            SatisfiesAll(call.jobs[i]) =>
                \E k \in 1..Len(ret[2]) :
                    generate_job_hash(ret[2][k]) = generate_job_hash(call.jobs[i])

\* C30: two records whose lower-cased, trimmed (title, company, location)
\* triples differ in a component have different key strings in
\* generate_job_hash, also when a title or a company holds a '-'.
NormalizedIdentity(job) ==
    <<strip(lower(job.title)), strip(lower(job.company)),
      strip(lower(get(job, "location", <<>>)))>>

C30_KeyStringInjective ==
    (last_op = "filter_new_jobs" /\ Len(call.jobs) = 2) =>
        (NormalizedIdentity(call.jobs[1]) # NormalizedIdentity(call.jobs[2])
            => job_string(call.jobs[1]) # job_string(call.jobs[2]))

====
